---- MODULE Spec2Model ----
(***************************************************************************)
(* Branch Prediction Unit of MARSS-RISCV (src/riscvsim/bpu.c).             *)
(*                                                                         *)
(* The unit coordinates a branch target buffer (BTB) and an optional       *)
(* adaptive predictor.  bpu.c is modelled line by line; the BTB and the    *)
(* adaptive predictor are collaborators whose code lives in other files,   *)
(* they are modelled from their interface contract.                        *)
(*                                                                         *)
(* The pipeline keeps one BPUResponsePkt per in-flight instruction; the    *)
(* model keeps two of them, so that several probes can be outstanding     *)
(* before their add/update is issued.                                      *)
(***************************************************************************)
EXTENDS Integers, FiniteSets, Sequences, TLC

(* ------------------------------ bounds -------------------------------- *)
\* entries of the BTB
NumSlots == 2
\* the program's counters are unbounded: the number of calls that count in
\* the statistics is bounded, by MaxOps when all calls are made at one
\* privilege level and by MaxPrivOps when they are made at any level;
\* MaxDeepOps bounds the longer call sequences, again at one level
MaxOps == 6
MaxPrivOps == 4
MaxDeepOps == 7

(* --------------------------- program constants ------------------------ *)
PRED_NOT_TAKEN == 0
PRED_TAKEN == 1
BPU_MISS == 0
BPU_HIT == 1

BRANCH_UNCOND == "UNCOND"
BRANCH_COND == "COND"
BranchTypes == {BRANCH_UNCOND, BRANCH_COND}

\* two branch addresses, two resolved target addresses, two instructions in
\* flight, two of the simulator's privilege levels
PCs == {1, 2}
Targets == {1, 2}
Pkts == {1, 2}
Privs == {0, 1}
Slots == 1..NumSlots
NoEntry == 0

VARIABLES
    ap_on,   \* u->ap != NULL : TRUE in adaptive mode, FALSE in bimodal mode
    btb,     \* u->btb : the branch target buffer, slot -> BtbEntry
    ap,      \* u->ap  : the adaptive predictor, pc -> tracking state
    stats,   \* u->stats[priv] : btb_probes, btb_hits, btb_inserts, btb_updates
    pkts,    \* the pipeline's BPUResponsePkt objects
    last,    \* the last call, when it was bpu_probe or bpu_get_target: its
             \* packet and, for bpu_get_target, the result, for bpu_probe
             \* whether it read the type of the entry (ret = 1) or not
    hist     \* history: probe calls counted per privilege level, BTB
             \* allocations per pc since the last flush, the packets whose
             \* response has been passed to bpu_add, and per BTB slot the
             \* target of the latest bpu_update since the slot was allocated;
             \* further whether every bpu_update so far has had the effect
             \* its contract states on the BTB and the statistics, whether
             \* every bpu_add and bpu_update so far has had the effect the
             \* contract states on the adaptive predictor, and whether
             \* bpu_add has been called since the last flush

vars == <<ap_on, btb, ap, stats, pkts, last, hist>>

(* ------------------- collaborator: branch target buffer --------------- *)
BtbDefaultTarget == 0
BtbDefaultPred == 1

FreeEntry ==
    [status |-> "FREE", pc |-> 0, type |-> BRANCH_UNCOND,
     target |-> BtbDefaultTarget, pred |-> BtbDefaultPred]

btb_init == [s \in Slots |-> FreeEntry]

btb_flush(b) == [s \in Slots |-> FreeEntry]

BtbMatches(b, pc) == {s \in Slots : b[s].status = "VALID" /\ b[s].pc = pc}

MinOf(S) == CHOOSE x \in S : \A y \in S : x <= y

\* lookup of pc: HIT and the entry, or MISS and no entry
btb_probe(b, pc) ==
    IF BtbMatches(b, pc) # {}
    THEN [status |-> BPU_HIT, entry |-> MinOf(BtbMatches(b, pc))]
    ELSE [status |-> BPU_MISS, entry |-> NoEntry]

\* the slots btb_add may take for pc: indexing and replacement are the
\* buffer's own business, any slot may be the one, free or not
btb_add_slots(b, pc) == Slots

btb_add(b, s, pc, type) ==
    [b EXCEPT ![s] = [status |-> "VALID", pc |-> pc, type |-> type,
                      target |-> BtbDefaultTarget, pred |-> BtbDefaultPred]]

SatCounter(v, taken) ==
    IF taken = PRED_TAKEN
    THEN (IF v < 3 THEN v + 1 ELSE 3)
    ELSE (IF v > 0 THEN v - 1 ELSE 0)

btb_update(b, s, target, pred, type) ==
    [b EXCEPT ![s].target = target, ![s].pred = SatCounter(@, pred)]

(* -------------------- collaborator: adaptive predictor ---------------- *)
ApUntracked == [valid |-> FALSE, ctr |-> 1]

adaptive_predictor_init == [pc \in PCs |-> ApUntracked]

adaptive_predictor_flush(a) == [pc \in PCs |-> ApUntracked]

adaptive_predictor_probe(a, pc) == IF a[pc].valid THEN BPU_HIT ELSE BPU_MISS

adaptive_predictor_add(a, pc) == [a EXCEPT ![pc] = [valid |-> TRUE, ctr |-> 1]]

adaptive_predictor_update(a, pc, pred) ==
    [a EXCEPT ![pc].ctr = SatCounter(@, pred)]

\* the verdicts get_prediction may give: the counter's for a tracked pc,
\* either for a pc the predictor does not track
adaptive_predictor_get_prediction(a, pc) ==
    IF a[pc].valid
    THEN {IF a[pc].ctr > 1 THEN PRED_TAKEN ELSE PRED_NOT_TAKEN}
    ELSE {PRED_NOT_TAKEN, PRED_TAKEN}

(* ------------------------------ statistics ---------------------------- *)
ZeroStats == [btb_probes |-> 0, btb_hits |-> 0, btb_inserts |-> 0, btb_updates |-> 0]

RECURSIVE SumOver(_, _)
SumOver(f, S) ==
    IF S = {} THEN 0
    ELSE LET x == CHOOSE y \in S : TRUE IN f[x] + SumOver(f, S \ {x})

\* the calls counted in the statistics so far
OpsDone ==
    SumOver([v \in Privs |-> stats[v].btb_probes + stats[v].btb_inserts
                              + stats[v].btb_updates], Privs)

(* ------------------------------ bpu_init ------------------------------ *)
FreshPkt ==
    [pc |-> 0, btb_probe_status |-> BPU_MISS, ap_probe_status |-> BPU_MISS,
     bpu_probe_status |-> BPU_MISS, btb_entry |-> NoEntry]

NoCall == [op |-> "none", pkt |-> 0, ret |-> 0, verdict |-> 0]

ZeroHist ==
    [probes |-> [v \in Privs |-> 0], hits |-> [v \in Privs |-> 0],
     allocs |-> [pc \in PCs |-> 0], added |-> [i \in Pkts |-> FALSE],
     written |-> [s \in Slots |-> 0],
     updateOk |-> TRUE, apOk |-> TRUE,
     addSinceFlush |-> FALSE]

bpu_init(bpu_type) ==
    /\ ap_on = (bpu_type # 0)
    /\ btb = btb_init
    /\ ap = adaptive_predictor_init
    /\ stats = [v \in Privs |-> ZeroStats]
    /\ pkts = [i \in Pkts |-> FreshPkt]
    /\ last = NoCall
    /\ hist = ZeroHist

Init == \E bpu_type \in {0, 1} : bpu_init(bpu_type)

(* ------------------------------ bpu_probe ----------------------------- *)
LogicalOr(x, y) == IF x # 0 \/ y # 0 THEN 1 ELSE 0

\* line 98: p->btb_probe_status && p->ap_probe_status
LogicalAnd(x, y) == IF x # 0 /\ y # 0 THEN 1 ELSE 0

ProbeConsultsApAlways(b, p) == ap_on

\* both operands of || are evaluated
ProbeReadsEntryEager(on, status) == on

\* lines 92-93: p->btb_entry->type is the right operand of ||, it is read
\* only when u->ap is set and the left operand !p->btb_probe_status is false
ProbeReadsEntry(on, status) == on /\ status # 0

\* lines 92-93: is the adaptive predictor consulted?  The entry's type is
\* read only when the lookup did not miss (|| short-circuits).
ProbeConsultsAp(b, p) ==
    ap_on /\ (p.btb_probe_status = BPU_MISS \/ b[p.btb_entry].type = BRANCH_COND)

\* lines 84-98: the packet as bpu_probe leaves it.  btb_probe sets the
\* entry reference on a hit and leaves the field alone on a miss.
ProbePkt(b, a, p, pc) ==
    LET r == btb_probe(b, pc)
        p1 == [p EXCEPT !.pc = pc,
                        !.ap_probe_status = BPU_HIT,
                        !.btb_probe_status = r.status,
                        !.btb_entry = IF r.status = BPU_HIT THEN r.entry ELSE @]
        p2 == IF ProbeConsultsAp(b, p1)
              THEN [p1 EXCEPT !.ap_probe_status = adaptive_predictor_probe(a, pc)]
              ELSE p1
    IN [p2 EXCEPT !.bpu_probe_status =
                      LogicalAnd(p2.btb_probe_status, p2.ap_probe_status)]

ProbeStatsHitsFirst(st, priv, status) ==
    [st EXCEPT ![priv].btb_hits = @ + 1,
               ![priv].btb_probes = IF status = BPU_HIT THEN @ + 1 ELSE @]

\* lines 86-90: the statistics after a probe at privilege level priv
ProbeStats(st, priv, status) ==
    [st EXCEPT ![priv].btb_hits = IF status = BPU_HIT THEN @ + 1 ELSE @,
               ![priv].btb_probes = @ + 1]

\* a probe that allocates the entry it did not find
bpu_probe_allocating(i, pc, priv) ==
    LET r == btb_probe(btb, pc) IN
    /\ pkts' = [pkts EXCEPT ![i] = ProbePkt(btb, ap, pkts[i], pc)]
    /\ stats' = ProbeStats(stats, priv, r.status)
    /\ btb' = IF r.status = BPU_MISS THEN btb_add(btb, 1, pc, BRANCH_COND) ELSE btb
    /\ ap' = ap
    /\ last' = [op |-> "probe", pkt |-> i,
                ret |-> IF ProbeReadsEntry(ap_on, r.status) THEN 1 ELSE 0,
                verdict |-> 0]
    /\ hist' = [hist EXCEPT !.probes[priv] = @ + 1,
                            !.hits[priv] = IF r.status = BPU_HIT THEN @ + 1 ELSE @,
                            !.added[i] = FALSE]
    /\ UNCHANGED ap_on

bpu_probe(i, pc, priv) ==
    LET r == btb_probe(btb, pc) IN
    /\ pkts' = [pkts EXCEPT ![i] = ProbePkt(btb, ap, pkts[i], pc)]
    /\ stats' = ProbeStats(stats, priv, r.status)
    /\ btb' = btb
    /\ ap' = ap
    /\ last' = [op |-> "probe", pkt |-> i,
                ret |-> IF ProbeReadsEntry(ap_on, r.status) THEN 1 ELSE 0,
                verdict |-> 0]
    /\ hist' = [hist EXCEPT !.probes[priv] = @ + 1,
                            !.hits[priv] = IF r.status = BPU_HIT THEN @ + 1 ELSE @,
                            !.added[i] = FALSE]
    /\ UNCHANGED ap_on

(* ---------------------------- bpu_get_target -------------------------- *)
\* the adaptive predictor's verdict is applied to unconditional entries too
GetTargetUncondNeedsVerdict(e, on, verdict) ==
    IF e.type = BRANCH_UNCOND
    THEN (IF on /\ verdict = 0 THEN 0 ELSE e.target)
    ELSE IF on
         THEN (IF verdict # 0 THEN e.target ELSE 0)
         ELSE (IF e.pred > 1 THEN e.target ELSE 0)

\* every entry is treated as a conditional one
GetTargetChecksAll(e, on, verdict) ==
    IF on
    THEN (IF verdict # 0 THEN e.target ELSE 0)
    ELSE (IF e.pred > 1 THEN e.target ELSE 0)

\* the bimodal threshold is off by one
GetTargetWeakTaken(e, on, verdict) ==
    IF e.type = BRANCH_UNCOND
    THEN e.target
    ELSE IF on
         THEN (IF verdict # 0 THEN e.target ELSE 0)
         ELSE (IF e.pred > 0 THEN e.target ELSE 0)

\* the bimodal threshold is one too high
GetTargetStrongTaken(e, on, verdict) ==
    IF e.type = BRANCH_UNCOND
    THEN e.target
    ELSE IF on
         THEN (IF verdict # 0 THEN e.target ELSE 0)
         ELSE (IF e.pred > 2 THEN e.target ELSE 0)

\* the BTB's own counter decides in adaptive mode too
GetTargetBimodalOnly(e, on, verdict) ==
    IF e.type = BRANCH_UNCOND
    THEN e.target
    ELSE (IF e.pred > 1 THEN e.target ELSE 0)

\* lines 109-140: the address returned for an entry, given the adaptive
\* predictor's verdict (read only in adaptive mode)
GetTarget(e, on, verdict) ==
    IF e.type = BRANCH_UNCOND
    THEN e.target
    ELSE IF on
         THEN (IF verdict # 0 THEN e.target ELSE 0)
         ELSE (IF e.pred > 1 THEN e.target ELSE 0)

\* the verdict bpu_get_target reads: the adaptive predictor is asked only
\* in adaptive mode and only for a conditional entry (lines 118-124)
GetTargetVerdicts(e, on, a, pc) ==
    IF on /\ e.type = BRANCH_COND
    THEN adaptive_predictor_get_prediction(a, pc)
    ELSE {PRED_NOT_TAKEN}

\* the pipeline asks for the target of an entry that a probe has handed out
bpu_get_target(i) ==
    LET e == btb[pkts[i].btb_entry] IN
    /\ pkts[i].btb_probe_status = BPU_HIT
    /\ \E verdict \in GetTargetVerdicts(e, ap_on, ap, pkts[i].pc) :
          last' = [op |-> "get_target", pkt |-> i,
                   ret |-> GetTarget(e, ap_on, verdict), verdict |-> verdict]
    /\ UNCHANGED <<ap_on, btb, ap, stats, pkts, hist>>

(* -------------------------------- bpu_add ----------------------------- *)
\* the allocation is not guarded by the probe status
AddAllocatesBtbAlways(p) == p.btb_probe_status \in {BPU_MISS, BPU_HIT}

\* line 152
AddAllocatesBtb(p) == p.btb_probe_status = 0

\* the branch type is not looked at
AddAllocatesApAnyType(on, type, p) == on /\ p.ap_probe_status = 0

\* lines 160-162
AddAllocatesAp(on, type, p) == on /\ type = BRANCH_COND /\ p.ap_probe_status = 0

\* the contract of add for the adaptive predictor: tracking state is
\* allocated in adaptive mode, for a CONDITIONAL branch, when the response's
\* ap_probe_status is MISS
ContractAddAp(a, type, p) ==
    IF ap_on /\ type = BRANCH_COND /\ p.ap_probe_status = BPU_MISS
    THEN adaptive_predictor_add(a, p.pc) ELSE a

\* the pipeline resolves an instruction once: the response of one probe is
\* passed to bpu_add at most once
bpu_add(i, type, priv) ==
    LET p == pkts[i] IN
    /\ p.pc \in PCs
    /\ ~hist.added[i]
    /\ ap' = IF AddAllocatesAp(ap_on, type, p)
             THEN adaptive_predictor_add(ap, p.pc) ELSE ap
    /\ IF AddAllocatesBtb(p)
       THEN /\ \E s \in btb_add_slots(btb, p.pc) :
                  /\ btb' = btb_add(btb, s, p.pc, type)
                  /\ hist' = [hist EXCEPT !.allocs[p.pc] = @ + 1,
                                          !.added[i] = TRUE,
                                          !.addSinceFlush = TRUE,
                                          !.written[s] = 0,
                                          !.apOk = @ /\ ap' = ContractAddAp(ap, type, p)]
            /\ stats' = [stats EXCEPT ![priv].btb_inserts = @ + 1]
       ELSE /\ hist' = [hist EXCEPT !.added[i] = TRUE,
                                    !.addSinceFlush = TRUE,
                                    !.apOk = @ /\ ap' = ContractAddAp(ap, type, p)]
            /\ UNCHANGED <<btb, stats>>
    /\ last' = NoCall
    /\ UNCHANGED <<ap_on, pkts>>

(* ------------------------------- bpu_update --------------------------- *)
\* the entry is written when the probe missed
UpdateWritesBtbOnMiss(p) == p.btb_probe_status = 0

\* line 173
UpdateWritesBtb(p) == p.btb_probe_status # 0

\* lines 181-183
UpdateFeedsAp(on, type, p) == on /\ type = BRANCH_COND /\ p.ap_probe_status # 0

\* the contract of update for the entry of a BTB-hit response: the resolved
\* target is stored, the counter moves one step toward 3 on taken and one
\* step toward 0 on not-taken and stays in 0..3
ContractUpdateEntry(e, target, pred) ==
    [e EXCEPT !.target = target,
              !.pred = IF pred = PRED_TAKEN
                       THEN (IF @ + 1 > 3 THEN 3 ELSE @ + 1)
                       ELSE (IF @ - 1 < 0 THEN 0 ELSE @ - 1)]

\* the contract of update for the BTB b and the statistics st, with b2 and
\* st2 what the call made of them: with a BTB-hit response the entry the
\* response refers to is updated, nothing else in the BTB changes, and
\* btb_updates of the call's privilege level, and no other counter, grows by
\* one; with a BTB-miss response both stay as they were
ContractUpdateBtb(p, target, pred, priv, b, st, b2, st2) ==
    IF p.btb_probe_status = BPU_HIT
    THEN /\ b2 = [b EXCEPT ![p.btb_entry] = ContractUpdateEntry(@, target, pred)]
         /\ st2 = [st EXCEPT ![priv].btb_updates = @ + 1]
    ELSE b2 = b /\ st2 = st

\* the contract of update for the adaptive predictor: the taken-bit is fed to
\* it in adaptive mode, for a CONDITIONAL branch, when the response's
\* ap_probe_status is HIT
ContractUpdateAp(a, pred, type, p) ==
    IF ap_on /\ type = BRANCH_COND /\ p.ap_probe_status = BPU_HIT
    THEN adaptive_predictor_update(a, p.pc, pred) ELSE a

bpu_update(i, target, pred, type, priv) ==
    LET p == pkts[i] IN
    /\ p.pc \in PCs
    /\ IF UpdateWritesBtb(p)
       THEN /\ btb' = btb_update(btb, p.btb_entry, target, pred, type)
            /\ stats' = [stats EXCEPT ![priv].btb_updates = @ + 1]
       ELSE UNCHANGED <<btb, stats>>
    /\ ap' = IF UpdateFeedsAp(ap_on, type, p)
             THEN adaptive_predictor_update(ap, p.pc, pred) ELSE ap
    /\ hist' = [hist EXCEPT
                  !.written = IF p.btb_probe_status = BPU_HIT
                              THEN [@ EXCEPT ![p.btb_entry] = target] ELSE @,
                  !.updateOk = @ /\ ContractUpdateBtb(p, target, pred, priv,
                                                       btb, stats, btb', stats'),
                  !.apOk = @ /\ ap' = ContractUpdateAp(ap, pred, type, p)]
    /\ last' = NoCall
    /\ UNCHANGED <<ap_on, pkts>>

(* ------------------------------- bpu_flush ---------------------------- *)
\* a flush that leaves the adaptive predictor alone
bpu_flush_btb_only ==
    /\ btb' = btb_flush(btb)
    /\ ap' = ap
    /\ last' = NoCall
    /\ hist' = [hist EXCEPT !.allocs = [pc \in PCs |-> 0],
                            !.written = [s \in Slots |-> 0],
                            !.addSinceFlush = FALSE]
    /\ UNCHANGED <<ap_on, stats, pkts>>

\* a flush that also zeroes the statistics
bpu_flush_zeroing ==
    /\ btb' = btb_flush(btb)
    /\ ap' = IF ap_on THEN adaptive_predictor_flush(ap) ELSE ap
    /\ stats' = [v \in Privs |-> ZeroStats]
    /\ last' = NoCall
    /\ hist' = [hist EXCEPT !.allocs = [pc \in PCs |-> 0],
                            !.written = [s \in Slots |-> 0],
                            !.addSinceFlush = FALSE]
    /\ UNCHANGED <<ap_on, pkts>>

\* a flush that frees one entry of the BTB per call
FlushedOneEntry(on, b, a) ==
    LET valid == {s \in Slots : b[s].status = "VALID"} IN
    [btb |-> IF valid = {} THEN b ELSE [b EXCEPT ![MinOf(valid)] = FreeEntry],
     ap |-> IF on THEN adaptive_predictor_flush(a) ELSE a]

\* lines 60-65: the BTB and the adaptive predictor as bpu_flush leaves them
Flushed(on, b, a) ==
    [btb |-> btb_flush(b),
     ap |-> IF on THEN adaptive_predictor_flush(a) ELSE a]

bpu_flush ==
    /\ btb' = Flushed(ap_on, btb, ap).btb
    /\ ap' = Flushed(ap_on, btb, ap).ap
    /\ last' = NoCall
    /\ hist' = [hist EXCEPT !.allocs = [pc \in PCs |-> 0],
                            !.written = [s \in Slots |-> 0],
                            !.addSinceFlush = FALSE]
    /\ UNCHANGED <<ap_on, stats, pkts>>

(* ---------------------------- specification --------------------------- *)
Probe(P) == \E i \in Pkts, pc \in PCs, priv \in P : bpu_probe(i, pc, priv)
GetTargetCall == \E i \in Pkts : bpu_get_target(i)
Add(P) == \E i \in Pkts, type \in BranchTypes, priv \in P : bpu_add(i, type, priv)
Update(P) ==
    \E i \in Pkts, target \in Targets, pred \in {PRED_NOT_TAKEN, PRED_TAKEN},
       type \in BranchTypes, priv \in P : bpu_update(i, target, pred, type, priv)
Flush == bpu_flush

\* all calls at privilege level 0
Next ==
    \/ OpsDone < MaxOps /\ Probe({0})
    \/ OpsDone < MaxOps /\ Add({0})
    \/ OpsDone < MaxOps /\ Update({0})
    \/ GetTargetCall
    \/ Flush

Spec == Init /\ [][Next]_vars

\* calls at every privilege level
NextPriv ==
    \/ OpsDone < MaxPrivOps /\ Probe(Privs)
    \/ OpsDone < MaxPrivOps /\ Add(Privs)
    \/ OpsDone < MaxPrivOps /\ Update(Privs)
    \/ GetTargetCall
    \/ Flush

SpecPriv == Init /\ [][NextPriv]_vars

\* longer call sequences, all calls at privilege level 0
NextDeep ==
    \/ OpsDone < MaxDeepOps /\ Probe({0})
    \/ OpsDone < MaxDeepOps /\ Add({0})
    \/ OpsDone < MaxDeepOps /\ Update({0})
    \/ GetTargetCall
    \/ Flush

SpecDeep == Init /\ [][NextDeep]_vars

\* every branch resolves taken: bpu_update is called with pred = PRED_TAKEN
UpdateTaken(P) ==
    \E i \in Pkts, target \in Targets, type \in BranchTypes, priv \in P :
        bpu_update(i, target, PRED_TAKEN, type, priv)

NextTaken ==
    \/ OpsDone < MaxOps /\ Probe({0})
    \/ OpsDone < MaxOps /\ Add({0})
    \/ OpsDone < MaxOps /\ UpdateTaken({0})
    \/ GetTargetCall
    \/ Flush

SpecTaken == Init /\ [][NextTaken]_vars

(* ============================== claims ================================ *)
\* packet i holds a response that bpu_probe produced
Probed(i) == pkts[i].pc \in PCs

\* the BTB entry that packet i refers to still is the entry of the packet's pc
EntryLive(i) ==
    /\ pkts[i].btb_probe_status = BPU_HIT
    /\ btb[pkts[i].btb_entry].status = "VALID"
    /\ btb[pkts[i].btb_entry].pc = pkts[i].pc

\* C1: in every response that bpu_probe has produced, bpu_probe_status is HIT
\* if and only if btb_probe_status is HIT and ap_probe_status is HIT.
C1_BpuHitIffBothHit ==
    \A i \in Pkts :
        Probed(i) =>
            ((pkts[i].bpu_probe_status = BPU_HIT)
                <=> (pkts[i].btb_probe_status = BPU_HIT
                     /\ pkts[i].ap_probe_status = BPU_HIT))

\* adaptive mode: one response with BTB miss and adaptive-predictor hit, so
\* the unit missed, and another with all three statuses HIT
C1_Witness ==
    /\ ap_on
    /\ \E i, j \in Pkts :
          /\ Probed(i) /\ Probed(j)
          /\ pkts[i].btb_probe_status = BPU_MISS
          /\ pkts[i].ap_probe_status = BPU_HIT
          /\ pkts[i].bpu_probe_status = BPU_MISS
          /\ pkts[j].btb_probe_status = BPU_HIT
          /\ pkts[j].ap_probe_status = BPU_HIT
          /\ pkts[j].bpu_probe_status = BPU_HIT

\* C2: bpu_probe asks the adaptive predictor exactly when there is one and
\* the BTB lookup missed or hit a CONDITIONAL entry; otherwise the response's
\* ap_probe_status is HIT whatever the adaptive predictor holds for the pc.
C2_ApConsultedOnlyWhenNeeded ==
    last.op = "probe" =>
        LET p == pkts[last.pkt]
            needed == ap_on /\ (p.btb_probe_status = BPU_MISS
                                \/ btb[p.btb_entry].type = BRANCH_COND)
        IN p.ap_probe_status =
               IF needed THEN adaptive_predictor_probe(ap, p.pc) ELSE BPU_HIT

\* adaptive mode, the adaptive predictor does not track the pc, the BTB hit
\* an UNCONDITIONAL entry for it, and the response says ap_probe_status HIT
C2_Witness ==
    /\ ap_on
    /\ last.op = "probe"
    /\ \E i \in {last.pkt} :
          /\ Probed(i) /\ EntryLive(i)
          /\ btb[pkts[i].btb_entry].type = BRANCH_UNCOND
          /\ ~ap[pkts[i].pc].valid
          /\ pkts[i].ap_probe_status = BPU_HIT

\* C3: at every privilege level btb_probes is the number of probe calls made
\* at that level, btb_hits the number of them whose BTB lookup hit, and
\* btb_hits <= btb_probes.
C3_ProbeCounts ==
    \A v \in Privs :
        /\ stats[v].btb_probes = hist.probes[v]
        /\ stats[v].btb_hits = hist.hits[v]
        /\ stats[v].btb_hits <= stats[v].btb_probes

\* probes at both privilege levels, hits and misses among them
C3_Witness ==
    /\ stats[0].btb_probes = 2 /\ stats[0].btb_hits = 1
    /\ stats[1].btb_probes = 1 /\ stats[1].btb_hits = 0

\* the entry that the last bpu_get_target call was given
LastEntry == btb[pkts[last.pkt].btb_entry]

\* C4 (as claimed): for every pc no more than one BTB allocation occurs
\* without an intervening flush, so at most one BTB entry exists per pc.
C4_AtMostOneAllocation ==
    \A pc \in PCs :
        /\ hist.allocs[pc] <= 1
        /\ Cardinality(BtbMatches(btb, pc)) <= 1

\* the unconditional branch at pc jumps to BranchTarget(pc)
BranchTarget(pc) == pc

C7_BimodalThreshold ==
    (last.op = "get_target" /\ ~ap_on /\ LastEntry.type = BRANCH_COND)
        => /\ LastEntry.pred \in 0..3
           /\ last.ret = IF LastEntry.pred \in {2, 3} THEN LastEntry.target ELSE 0

\* bimodal mode, a CONDITIONAL entry with counter 3 and stored target 2, and
\* get_target returned 2
C7_Witness ==
    /\ last.op = "get_target" /\ ~ap_on /\ EntryLive(last.pkt)
    /\ LastEntry.type = BRANCH_COND
    /\ LastEntry.pred = 3
    /\ LastEntry.target = 2
    /\ last.ret = 2

\* C8: adaptive mode, CONDITIONAL entry: get_target returns the stored
\* target when the adaptive predictor's verdict for the pc is taken and the
\* sentinel 0 when it is not-taken, whatever the entry's own counter.
C8_AdaptiveVerdict ==
    (last.op = "get_target" /\ ap_on /\ LastEntry.type = BRANCH_COND)
        => /\ last.verdict \in adaptive_predictor_get_prediction(ap, pkts[last.pkt].pc)
           /\ last.ret = IF last.verdict = PRED_TAKEN THEN LastEntry.target ELSE 0

\* adaptive mode: the entry's own counter says taken (2), the adaptive
\* predictor says not-taken for the tracked pc, and get_target returned 0
C8_Witness ==
    /\ last.op = "get_target" /\ ap_on /\ EntryLive(last.pkt)
    /\ LastEntry.type = BRANCH_COND
    /\ LastEntry.target # 0
    /\ LastEntry.pred >= 2
    /\ ap[pkts[last.pkt].pc].valid
    /\ last.verdict = PRED_NOT_TAKEN
    /\ last.ret = 0

\* C9: a bpu_probe step leaves the BTB and the adaptive predictor as they
\* were; of the statistics it changes btb_probes of the call's privilege
\* level, by one, and btb_hits of that level, by one on a BTB hit.
C9_ProbeFrame ==
    [][last'.op = "probe" =>
          /\ btb' = btb
          /\ ap' = ap
          /\ ap_on' = ap_on
          /\ \E priv \in Privs :
                stats' = [stats EXCEPT
                            ![priv].btb_probes = @ + 1,
                            ![priv].btb_hits =
                                IF pkts'[last'.pkt].btb_probe_status = BPU_HIT
                                THEN @ + 1 ELSE @]]_vars

\* adaptive mode: after a probe that missed and an add, a probe at privilege
\* level 1 has just hit the entry while the adaptive predictor tracks the pc
C9_Witness ==
    /\ ap_on
    /\ last.op = "probe"
    /\ EntryLive(last.pkt)
    /\ ap[pkts[last.pkt].pc].valid
    /\ stats[1].btb_probes = 1 /\ stats[1].btb_hits = 1
    /\ stats[0].btb_probes = 1 /\ stats[0].btb_hits = 0

\* C10: bpu_add with a response whose btb_probe_status is MISS puts one valid
\* entry for the response's pc, of the given type, into the BTB, leaves the
\* other entries alone and adds one to btb_inserts of the call's privilege
\* level and to nothing else; with a response whose btb_probe_status is HIT
\* it leaves the BTB and all statistics as they were.
C10_AddEffect ==
    [][\A i \in Pkts :
          (hist'.added[i] /\ ~hist.added[i]) =>
              \A type \in BranchTypes, priv \in Privs :
                  bpu_add(i, type, priv) =>
                      IF pkts[i].btb_probe_status = BPU_MISS
                      THEN /\ \E s \in Slots :
                                /\ btb'[s].status = "VALID"
                                /\ btb'[s].pc = pkts[i].pc
                                /\ btb'[s].type = type
                                /\ \A t \in Slots \ {s} : btb'[t] = btb[t]
                           /\ stats' = [stats EXCEPT ![priv].btb_inserts = @ + 1]
                      ELSE btb' = btb /\ stats' = stats]_vars

\* both cases have happened: a response with BTB miss was passed to bpu_add,
\* at privilege level 1, and its entry is in the BTB, and a response with BTB
\* hit was passed to bpu_add; btb_inserts counts one
C10_Witness ==
    /\ \E i, j \in Pkts :
          /\ hist.added[i] /\ pkts[i].btb_probe_status = BPU_MISS
          /\ BtbMatches(btb, pkts[i].pc) # {}
          /\ hist.added[j] /\ pkts[j].btb_probe_status = BPU_HIT
    /\ stats[1].btb_inserts = 1
    /\ stats[0].btb_inserts = 0

\* C11: every bpu_update call made so far with a BTB-hit response has stored
\* the resolved target in the entry the response refers to, has moved that
\* entry's counter one step toward 3 on taken and one step toward 0 on
\* not-taken, within 0..3, has changed nothing else in the BTB and has added
\* one to btb_updates of its privilege level and to no other counter; every
\* call made with a BTB-miss response has left the BTB and the statistics
\* as they were.
C11_UpdateEffect ==
    /\ hist.updateOk
    /\ \A s \in Slots : btb[s].pred \in 0..3 /\ btb[s].target = hist.written[s]

\* three updates through hit responses have been counted, the last one with
\* target 2, and taken updates have driven the entry's counter to 3, where
\* it stays
C11_Witness ==
    /\ stats[0].btb_updates = 3
    /\ \E s \in Slots :
          /\ btb[s].status = "VALID"
          /\ btb[s].type = BRANCH_COND
          /\ btb[s].pred = 3
          /\ btb[s].target = 2
          /\ hist.written[s] = 2

\* C12: every bpu_add and bpu_update call made so far with type UNCONDITIONAL
\* has left the adaptive predictor as it was, for every response; with type
\* CONDITIONAL in adaptive mode, add has allocated tracking state for the pc
\* only with a response whose ap_probe_status is MISS and update has fed the
\* taken-bit only with a response whose ap_probe_status is HIT; in bimodal
\* mode the adaptive predictor has never been touched.
C12_ApOnlyForConditional ==
    /\ hist.apOk
    /\ ~ap_on => ap = adaptive_predictor_init

\* adaptive mode: pc 1 was added as CONDITIONAL with an adaptive-predictor
\* miss and then updated taken with an adaptive-predictor hit, so it is
\* tracked and its counter has moved; pc 2 was added as UNCONDITIONAL with an
\* adaptive-predictor miss, it has a BTB entry and no tracking state
C12_Witness ==
    /\ ap_on
    /\ ap[1].valid /\ ap[1].ctr = 2
    /\ ~ap[2].valid
    /\ \E s \in BtbMatches(btb, 2) : btb[s].type = BRANCH_UNCOND
    /\ \E i \in Pkts :
          /\ pkts[i].pc = 2 /\ hist.added[i]
          /\ pkts[i].ap_probe_status = BPU_MISS

\* C13: no step of probe, get_target, add, update or flush lowers any of the
\* counters btb_probes, btb_hits, btb_inserts, btb_updates at any privilege
\* level, so none is ever reset to zero, and a flush step leaves every
\* counter as it was.
C13_StatsNeverDecrease ==
    [][/\ \A v \in Privs :
             /\ stats'[v].btb_probes >= stats[v].btb_probes
             /\ stats'[v].btb_hits >= stats[v].btb_hits
             /\ stats'[v].btb_inserts >= stats[v].btb_inserts
             /\ stats'[v].btb_updates >= stats[v].btb_updates
       /\ bpu_flush => stats' = stats]_vars

\* a probe that missed, an add, a probe that hit and an update have been
\* counted, at two privilege levels, and the flush that followed has emptied
\* the BTB and left the four counters standing
C13_Witness ==
    /\ \A s \in Slots : btb[s].status = "FREE"
    /\ stats[0].btb_probes + stats[1].btb_probes = 2
    /\ stats[0].btb_hits + stats[1].btb_hits = 1
    /\ stats[1].btb_inserts = 1
    /\ stats[0].btb_updates = 1

\* C14: a probe made after a flush, with no add since that flush, reports
\* btb_probe_status MISS, in adaptive mode also ap_probe_status MISS, and so
\* bpu_probe_status MISS, for every pc and whatever was allocated or updated
\* before the flush (the same holds before the first add after init).
C14_ProbeMissesAfterFlush ==
    (last.op = "probe" /\ ~hist.addSinceFlush) =>
        LET p == pkts[last.pkt] IN
        /\ p.btb_probe_status = BPU_MISS
        /\ ap_on => p.ap_probe_status = BPU_MISS
        /\ p.bpu_probe_status = BPU_MISS

\* adaptive mode: an entry was allocated, probed with a hit and updated, then
\* the unit was flushed, and the probe that followed, with no add in
\* between, missed in the BTB and in the adaptive predictor
C14_Witness ==
    /\ ap_on
    /\ last.op = "probe" /\ ~hist.addSinceFlush
    /\ stats[0].btb_inserts = 1
    /\ stats[0].btb_updates = 1
    /\ stats[0].btb_hits = 1
    /\ pkts[last.pkt].btb_probe_status = BPU_MISS
    /\ pkts[last.pkt].ap_probe_status = BPU_MISS

C16_UpdateThroughLiveReference ==
    [][\A v \in Privs :
          stats'[v].btb_updates # stats[v].btb_updates =>
              \E i \in Pkts :
                  /\ EntryLive(i)
                  /\ \E target \in Targets, pred \in {PRED_NOT_TAKEN, PRED_TAKEN},
                        type \in BranchTypes :
                         bpu_update(i, target, pred, type, v)]_vars

\* C17 (as claimed): whenever bpu_update feeds a taken-bit into the adaptive
\* predictor for the pc of a response, the adaptive predictor holds tracking
\* state for that pc, for every response passed to bpu_update.
C17_UpdateFeedsTrackedPc ==
    [][\A i \in Pkts, target \in Targets, pred \in {PRED_NOT_TAKEN, PRED_TAKEN},
         type \in BranchTypes, priv \in Privs :
          (UpdateFeedsAp(ap_on, type, pkts[i])
               /\ bpu_update(i, target, pred, type, priv))
              => ap[pkts[i].pc].valid]_vars

\* C18 (as claimed): once an add for pc has allocated its BTB entry (its
\* response said bpu_probe_status MISS), every later probe of pc reports
\* bpu_probe_status HIT, as long as no flush has happened since and every
\* entry allocated for pc is still in the BTB, in both modes and for both
\* branch types.
C18_HitAfterAdd ==
    last.op = "probe" =>
        LET p == pkts[last.pkt] IN
        (hist.allocs[p.pc] >= 1
             /\ Cardinality(BtbMatches(btb, p.pc)) = hist.allocs[p.pc])
            => p.bpu_probe_status = BPU_HIT

\* C19: bimodal mode, branches resolving taken: a CONDITIONAL entry's counter
\* never falls below its initial value, it is at least 2 once an update has
\* been applied to the entry, and get_target on an entry whose counter is at
\* least 2 returns the target that the latest update stored, and goes on
\* doing so after every further taken update.
C19_TakenReachesTarget ==
    (~ap_on /\ last.op = "get_target" /\ EntryLive(last.pkt)
         /\ LastEntry.type = BRANCH_COND)
        => LET s == pkts[last.pkt].btb_entry IN
           /\ LastEntry.pred >= BtbDefaultPred
           /\ hist.written[s] # 0 => LastEntry.pred >= 2
           /\ LastEntry.pred >= 2 =>
                  (last.ret = hist.written[s] /\ last.ret \in Targets)

\* bimodal mode: probe miss, add, then two rounds of probe hit and taken
\* update with target 2; the entry's counter is 3 and get_target returned 2
C19_Witness ==
    /\ ~ap_on
    /\ last.op = "get_target" /\ EntryLive(last.pkt)
    /\ LastEntry.type = BRANCH_COND
    /\ stats[0].btb_probes = 3 /\ stats[0].btb_hits = 2
    /\ stats[0].btb_inserts = 1 /\ stats[0].btb_updates = 2
    /\ LastEntry.pred = 3
    /\ hist.written[pkts[last.pkt].btb_entry] = 2
    /\ last.ret = 2

\* C20: a probe reads the type of the response's BTB entry only when the BTB
\* lookup hit, and the entry it then reads is the valid entry of the probed
\* pc that this lookup found; on a BTB miss nothing is read through the
\* entry reference, whatever it holds, and the adaptive predictor, if there
\* is one, is consulted.
C20_EntryReadOnlyOnHit ==
    last.op = "probe" =>
        LET p == pkts[last.pkt] IN
        /\ last.ret = 1 =>
               /\ p.btb_probe_status = BPU_HIT
               /\ p.btb_entry \in Slots
               /\ p.btb_entry = btb_probe(btb, p.pc).entry
               /\ btb[p.btb_entry].status = "VALID"
               /\ btb[p.btb_entry].pc = p.pc
        /\ p.btb_probe_status = BPU_MISS =>
               /\ last.ret = 0
               /\ p.ap_probe_status =
                      IF ap_on THEN adaptive_predictor_probe(ap, p.pc) ELSE BPU_HIT

\* adaptive mode: the last probe missed in the BTB with a packet whose entry
\* reference has never been set, the adaptive predictor was consulted and
\* missed, and no entry was read; another packet holds a response whose
\* lookup hit
C20_Witness ==
    /\ ap_on
    /\ last.op = "probe" /\ last.ret = 0
    /\ pkts[last.pkt].btb_probe_status = BPU_MISS
    /\ pkts[last.pkt].btb_entry = NoEntry
    /\ pkts[last.pkt].ap_probe_status = BPU_MISS
    /\ \E j \in Pkts : EntryLive(j) /\ btb[pkts[j].btb_entry].type = BRANCH_COND

====
